---- MODULE Spec2Model ----
(***************************************************************************)
(* Verification model of the puzzle solvers of advent_code_2024.           *)
(* Every solver is a closed program; each gets its own variables, its own  *)
(* initial condition and its own specification.  While one solver runs,    *)
(* the variables of the others rest at their idle values.                  *)
(***************************************************************************)
EXTENDS Bags, FiniteSets, Integers, Naturals, Sequences, TLC

VARIABLES
    \* day16 reindeer_maze(grid, start, end)
    grid,            \* the maze: grid[r][c] is a character, rows and columns from 0
    start,           \* <<row, col>> of the 'S' cell
    end,             \* <<row, col>> of the 'E' cell
    visited,         \* set of settled <<row, col, facing>>
    priority_queue,  \* heap of <<cost, row, col, facing>>, as a bag
    maze_pc,         \* "idle", "loop" (at the head of the while loop) or "done"
    maze_result,     \* the value returned
    popped,          \* history: settled state |-> the costs it was expanded with, in order
    lastpop,         \* the entry taken from the heap by the last iteration
    \* day16 reindeer_maze_part2(grid)
    board,           \* board[y][x], the grid as lists of characters
    q,               \* PriorityQueue of Node records, as a bag
    strict_visited,  \* dict (p, v) |-> least cost popped
    md,              \* least cost of a node popped on 'E'
    best,            \* list of the nodes popped on 'E'
    maze2_pc,        \* "idle", "loop" or "done"
    maze2_result,    \* the value returned
    \* day23 find_cliques / find_largest_clique / generate_password
    connections,     \* dict node |-> list of its neighbours, as parse_connections builds it
    bk_stack,        \* the active calls of bron_kerbosch, innermost last: [R, P, X, v, fresh]
    cliques,         \* the list the calls append to
    lan_pc,          \* "idle", "cliques" (inside find_cliques) or "done"
    passwords,       \* the password of every run made on this input so far
    \* day24 simulate_gates(initial_values, gate_connections)
    initial_values,    \* dict wire |-> value
    gate_connections,  \* list of <<input1, gate, input2, output>>
    current_values,    \* dict wire |-> value
    pending_outputs,   \* set of z wires not evaluated yet
    gate_index,        \* position of the for loop in gate_connections; 0 at the while test
    gates_pc,          \* "idle", "loop" or "done"
    \* day18 find_shortest_path / find_first_blocking_coordinate
    coordinates,     \* the list parse_coordinates returns
    coord_index,     \* how many coordinates the for loop has taken; 0 outside the loop
    blocked_coords,  \* set of blocked <<x, y>>
    max_coord,       \* the largest coordinate of the square
    open_set,        \* heap of <<f_score, x, y>>, as a bag
    g_scores,        \* dict <<x, y>> |-> steps
    path_result,     \* what find_shortest_path returned
    blocking_result, \* what find_first_blocking_coordinate returned
    ram_pc,          \* "idle", "next", "search", "returned" or "done"
    \* day19 count_ways(design, towel_set)
    design,          \* the design, a string as the sequence of its characters
    towel_set,       \* set of patterns
    dp,              \* list of n + 1 counts, indexed from 0
    dp_i,            \* the outer loop variable i
    ways_result,     \* the value returned
    towel_pc,        \* "idle", "loop" or "done"
    \* day23 find_triangles(connections)
    tri_connections,  \* the argument connections of find_triangles
    tri_keys,         \* the keys of connections in insertion order, the order of `for a in connections`
    tri_index,        \* how many keys the outer loop of find_triangles has taken
    triangles,        \* the list find_triangles builds
    tri_pc,           \* "idle", "loop" or "done"
    \* day5 sort_pages(pages, rules)
    pages,            \* the manual given to sort_pages, a list of page numbers
    rules,            \* the page ordering rules, pairs (before, after)
    sorted_manual,    \* the list sort_pages returns
    pages_pc,         \* "idle", "call" or "done"
    \* day14 contains_cluster(l, m, n)
    robots,           \* the list l of robot positions
    grid_m,           \* the width m
    grid_n,           \* the height n
    candidates,       \* the set of positions not yet put in a group
    num,              \* len(set(l))
    cluster_q,        \* the stack q of the inner search
    cluster_visited,  \* the set visited of the inner search
    largest_group,    \* the size of the largest group so far
    cluster_result,   \* the value returned
    cluster_pc,       \* "idle", "outer", "inner" or "done"
    \* day20 bfs(grid, start)
    track,            \* the argument grid of bfs, a map from (row, column) to a character
    bfs_start,        \* the argument start
    dist_map,         \* the map bfs builds
    queue,            \* the list the for loop runs over while it grows
    queue_index,      \* how many elements of queue the for loop has taken
    bfs_pc,           \* "idle", "loop" or "done"
    \* day1 read_lists_from_file(filepath)
    file_exists,      \* whether open(filepath) finds the file
    file_lines,       \* the lines of the file, each the list line.split() gives
    line_index,       \* how many lines the for loop has taken
    list_1,           \* the first list
    list_2,           \* the second list
    printed,          \* the messages printed
    lists_pc,         \* "idle", "try", "raised" or "done"
    \* day7 evaluate_combinations(numbers, target)
    numbers,          \* the list of numbers
    target,           \* the target value
    ops_index,        \* how many tuples of product(operators, repeat=n) the for loop has taken
    count,            \* the number of tuples that gave the target so far
    calib_result,     \* the value returned
    calib_pc          \* "idle", "loop" or "done"

mazeVars == <<grid, start, end, visited, priority_queue, maze_pc, maze_result,
              popped, lastpop>>

maze2Vars == <<board, q, strict_visited, md, best, maze2_pc, maze2_result>>

lanVars == <<connections, bk_stack, cliques, lan_pc, passwords>>

gatesVars == <<initial_values, gate_connections, current_values, pending_outputs,
               gate_index, gates_pc>>

ramVars == <<coordinates, coord_index, blocked_coords, max_coord, open_set, g_scores,
             path_result, blocking_result, ram_pc>>

towelVars == <<design, towel_set, dp, dp_i, ways_result, towel_pc>>

triVars == <<tri_connections, tri_keys, tri_index, triangles, tri_pc>>

pagesVars == <<pages, rules, sorted_manual, pages_pc>>

clusterVars == <<robots, grid_m, grid_n, candidates, num, cluster_q, cluster_visited, largest_group, cluster_result, cluster_pc>>

bfsVars == <<track, bfs_start, dist_map, queue, queue_index, bfs_pc>>

listsVars == <<file_exists, file_lines, line_index, list_1, list_2, printed, lists_pc>>

calibVars == <<numbers, target, ops_index, count, calib_result, calib_pc>>

vars == <<mazeVars, maze2Vars, lanVars, gatesVars, ramVars, towelVars, triVars, pagesVars, clusterVars, bfsVars, listsVars, calibVars>>

\* What each solver leaves alone: the variables of the others.
notMazeVars == <<maze2Vars, lanVars, gatesVars, ramVars, towelVars, triVars, pagesVars, clusterVars, bfsVars, listsVars, calibVars>>
notMaze2Vars == <<mazeVars, lanVars, gatesVars, ramVars, towelVars, triVars, pagesVars, clusterVars, bfsVars, listsVars, calibVars>>
notLanVars == <<mazeVars, maze2Vars, gatesVars, ramVars, towelVars, triVars, pagesVars, clusterVars, bfsVars, listsVars, calibVars>>
notGatesVars == <<mazeVars, maze2Vars, lanVars, ramVars, towelVars, triVars, pagesVars, clusterVars, bfsVars, listsVars, calibVars>>
notRamVars == <<mazeVars, maze2Vars, lanVars, gatesVars, towelVars, triVars, pagesVars, clusterVars, bfsVars, listsVars, calibVars>>
notTowelVars == <<mazeVars, maze2Vars, lanVars, gatesVars, ramVars, triVars, pagesVars, clusterVars, bfsVars, listsVars, calibVars>>
notTriVars == <<mazeVars, maze2Vars, lanVars, gatesVars, ramVars, towelVars, pagesVars, clusterVars, bfsVars, listsVars, calibVars>>
notPagesVars == <<mazeVars, maze2Vars, lanVars, gatesVars, ramVars, towelVars, triVars, clusterVars, bfsVars, listsVars, calibVars>>
notClusterVars == <<mazeVars, maze2Vars, lanVars, gatesVars, ramVars, towelVars, triVars, pagesVars, bfsVars, listsVars, calibVars>>
notBfsVars == <<mazeVars, maze2Vars, lanVars, gatesVars, ramVars, towelVars, triVars, pagesVars, clusterVars, listsVars, calibVars>>
notListsVars == <<mazeVars, maze2Vars, lanVars, gatesVars, ramVars, towelVars, triVars, pagesVars, clusterVars, bfsVars, calibVars>>
notCalibVars == <<mazeVars, maze2Vars, lanVars, gatesVars, ramVars, towelVars, triVars, pagesVars, clusterVars, bfsVars, listsVars>>

(***************************************************************************)
(* Bounds of the model.                                                    *)
(***************************************************************************)
MazeRows == 2
MazeCols == 3
MaxWalls == 2
MaxNodes == 3
MaxRuns == 2
MaxLines == 4
MaxPage == 3
MaxCells == 10
MaxRobots == 5
BfsRows == 4
BfsCols == 4
MaxOpen == 4
MaxStray == 1
MaxFileLines == 3
MaxNumbers == 3
MaxNumber == 3
MaxTarget == 23
MaxGates == 2
MaxCoord == 2
MaxBlocked == 3
MaxCoordinates == 3
MaxDesignLen == 4
MaxPatternLen == 2
MaxPatterns == 3

(***************************************************************************)
(* Helpers shared by the solvers.                                          *)
(***************************************************************************)
NoValue == "none"

(***************************************************************************)
(* The variables of a solver that is not running.                          *)
(***************************************************************************)
MazeIdle ==
    /\ grid = <<>> /\ start = NoValue /\ end = NoValue
    /\ visited = {} /\ priority_queue = EmptyBag
    /\ maze_pc = "idle" /\ maze_result = NoValue
    /\ popped = <<>> /\ lastpop = <<>>

Maze2Idle ==
    /\ board = <<>> /\ q = EmptyBag /\ strict_visited = <<>>
    /\ md = NoValue /\ best = <<>> /\ maze2_pc = "idle" /\ maze2_result = NoValue

LanIdle ==
    /\ connections = <<>> /\ bk_stack = <<>> /\ cliques = <<>>
    /\ lan_pc = "idle" /\ passwords = <<>>

GatesIdle ==
    /\ initial_values = <<>> /\ gate_connections = <<>> /\ current_values = <<>>
    /\ pending_outputs = {} /\ gate_index = 0 /\ gates_pc = "idle"

RamIdle ==
    /\ coordinates = <<>> /\ coord_index = 0 /\ blocked_coords = {} /\ max_coord = 0
    /\ open_set = EmptyBag /\ g_scores = <<>> /\ path_result = NoValue
    /\ blocking_result = NoValue /\ ram_pc = "idle"

TowelIdle ==
    /\ design = <<>> /\ towel_set = {} /\ dp = <<>> /\ dp_i = 0
    /\ ways_result = NoValue /\ towel_pc = "idle"

TriIdle ==
    /\ tri_connections = <<>> /\ tri_keys = <<>> /\ tri_index = 0 /\ triangles = <<>> /\ tri_pc = "idle"

PagesIdle ==
    /\ pages = <<>> /\ rules = {} /\ sorted_manual = <<>> /\ pages_pc = "idle"

ClusterIdle ==
    /\ robots = <<>> /\ grid_m = 0 /\ grid_n = 0 /\ candidates = {} /\ num = 0
    /\ cluster_q = <<>> /\ cluster_visited = {} /\ largest_group = 0
    /\ cluster_result = NoValue /\ cluster_pc = "idle"

BfsIdle ==
    /\ track = <<>> /\ bfs_start = <<>> /\ dist_map = <<>> /\ queue = <<>>
    /\ queue_index = 0 /\ bfs_pc = "idle"

ListsIdle ==
    /\ file_exists = FALSE /\ file_lines = <<>> /\ line_index = 0
    /\ list_1 = <<>> /\ list_2 = <<>> /\ printed = <<>> /\ lists_pc = "idle"

CalibIdle ==
    /\ numbers = <<>> /\ target = 0 /\ ops_index = 0 /\ count = 0
    /\ calib_result = NoValue /\ calib_pc = "idle"

NotMazeIdle == Maze2Idle /\ LanIdle /\ GatesIdle /\ RamIdle /\ TowelIdle /\ TriIdle /\ PagesIdle /\ ClusterIdle /\ BfsIdle /\ ListsIdle /\ CalibIdle
NotMaze2Idle == MazeIdle /\ LanIdle /\ GatesIdle /\ RamIdle /\ TowelIdle /\ TriIdle /\ PagesIdle /\ ClusterIdle /\ BfsIdle /\ ListsIdle /\ CalibIdle
NotLanIdle == MazeIdle /\ Maze2Idle /\ GatesIdle /\ RamIdle /\ TowelIdle /\ TriIdle /\ PagesIdle /\ ClusterIdle /\ BfsIdle /\ ListsIdle /\ CalibIdle
NotGatesIdle == MazeIdle /\ Maze2Idle /\ LanIdle /\ RamIdle /\ TowelIdle /\ TriIdle /\ PagesIdle /\ ClusterIdle /\ BfsIdle /\ ListsIdle /\ CalibIdle
NotRamIdle == MazeIdle /\ Maze2Idle /\ LanIdle /\ GatesIdle /\ TowelIdle /\ TriIdle /\ PagesIdle /\ ClusterIdle /\ BfsIdle /\ ListsIdle /\ CalibIdle
NotTowelIdle == MazeIdle /\ Maze2Idle /\ LanIdle /\ GatesIdle /\ RamIdle /\ TriIdle /\ PagesIdle /\ ClusterIdle /\ BfsIdle /\ ListsIdle /\ CalibIdle
NotTriIdle == MazeIdle /\ Maze2Idle /\ LanIdle /\ GatesIdle /\ RamIdle /\ TowelIdle /\ PagesIdle /\ ClusterIdle /\ BfsIdle /\ ListsIdle /\ CalibIdle
NotPagesIdle == MazeIdle /\ Maze2Idle /\ LanIdle /\ GatesIdle /\ RamIdle /\ TowelIdle /\ TriIdle /\ ClusterIdle /\ BfsIdle /\ ListsIdle /\ CalibIdle
NotClusterIdle == MazeIdle /\ Maze2Idle /\ LanIdle /\ GatesIdle /\ RamIdle /\ TowelIdle /\ TriIdle /\ PagesIdle /\ BfsIdle /\ ListsIdle /\ CalibIdle
NotBfsIdle == MazeIdle /\ Maze2Idle /\ LanIdle /\ GatesIdle /\ RamIdle /\ TowelIdle /\ TriIdle /\ PagesIdle /\ ClusterIdle /\ ListsIdle /\ CalibIdle
NotListsIdle == MazeIdle /\ Maze2Idle /\ LanIdle /\ GatesIdle /\ RamIdle /\ TowelIdle /\ TriIdle /\ PagesIdle /\ ClusterIdle /\ BfsIdle /\ CalibIdle
NotCalibIdle == MazeIdle /\ Maze2Idle /\ LanIdle /\ GatesIdle /\ RamIdle /\ TowelIdle /\ TriIdle /\ PagesIdle /\ ClusterIdle /\ BfsIdle /\ ListsIdle

Abs(n) == IF n < 0 THEN -n ELSE n

SetMin(S) == CHOOSE m \in S : \A o \in S : m <= o

\* Python's tuple order on tuples of integers of one length.
RECURSIVE TupleLess(_, _)
TupleLess(a, b) ==
    IF a = <<>> \/ b = <<>> THEN a = <<>> /\ b # <<>>
    ELSE IF Head(a) # Head(b) THEN Head(a) < Head(b)
    ELSE TupleLess(Tail(a), Tail(b))

\* heapq.heappop on a heap of integer tuples: the least entry in tuple order.
HeapMinMutant(h) ==
    CHOOSE e \in BagToSet(h) : \A o \in BagToSet(h) : o = e \/ TupleLess(<<e[2], e[3], e[4], e[1]>>, <<o[2], o[3], o[4], o[1]>>)
HeapMin(h) ==
    CHOOSE e \in BagToSet(h) : \A o \in BagToSet(h) : o = e \/ TupleLess(e, o)

HeapRemove(h, e) == h (-) SetToBag({e})

(***************************************************************************)
(* day16: reindeer_maze                                                    *)
(***************************************************************************)
\* directions = [(0, 1), (1, 0), (0, -1), (-1, 0)]: East, South, West, North
directions == [f \in 0..3 |->
    CASE f = 0 -> <<0, 1>> [] f = 1 -> <<1, 0>> [] f = 2 -> <<0, -1>> [] f = 3 -> <<-1, 0>>]

MazeCells == (0..(MazeRows - 1)) \X (0..(MazeCols - 1))

\* The grids parse_input can return: one 'S', one 'E', '#' and '.' elsewhere.
MazeGrid(s, e, walls) ==
    [r \in 0..(MazeRows - 1) |-> [c \in 0..(MazeCols - 1) |->
        IF <<r, c>> = s THEN "S"
        ELSE IF <<r, c>> = e THEN "E"
        ELSE IF <<r, c>> \in walls THEN "#" ELSE "."]]

\* len(grid), len(grid[0])
GridHeight(g) == Cardinality(DOMAIN g)
GridWidth(g) == Cardinality(DOMAIN g[0])

\* 0 <= new_x < len(grid) and 0 <= new_y < len(grid[0]) and grid[new_x][new_y] != '#'
CanEnterMutant(g, x, y) ==
    /\ 0 <= x /\ x < GridHeight(g)
    /\ 0 <= y /\ y < GridWidth(g)
CanEnter(g, x, y) ==
    /\ 0 <= x /\ x < GridHeight(g)
    /\ 0 <= y /\ y < GridWidth(g)
    /\ g[x][y] # "#"

\* for rotation in [-1, 1]: new_facing = (facing + rotation) % 4
RotationsMutant(facing) == {(facing + 1) % 4}
Rotations(facing) == {(facing + rotation) % 4 : rotation \in {-1, 1}}

\* if (x, y, facing) in visited: continue
IsVisitedMutant(v, x, y, facing) == FALSE
IsVisited(v, x, y, facing) == <<x, y, facing>> \in v

\* The entries one expansion of <<cost, x, y, facing>> pushes.
MazePushes(g, cost, x, y, facing) ==
    LET new_x == x + directions[facing][1]
        new_y == y + directions[facing][2]
    IN  (IF CanEnter(g, new_x, new_y)
         THEN SetToBag({<<cost + 1, new_x, new_y, facing>>}) ELSE EmptyBag)
        (+) SetToBag({<<cost + 1000, x, y, new_facing>> : new_facing \in Rotations(facing)})

\* The state after lines 60-66: the heap holds (0, start, facing East).
MazeInit ==
    /\ \E s \in MazeCells, e \in MazeCells, walls \in SUBSET MazeCells :
          /\ s # e
          /\ walls \cap {s, e} = {}
          /\ Cardinality(walls) <= MaxWalls
          /\ grid = MazeGrid(s, e, walls)
          /\ start = s
          /\ end = e
    /\ visited = {}
    /\ priority_queue = SetToBag({<<0, start[1], start[2], 0>>})
    /\ maze_pc = "loop"
    /\ maze_result = NoValue
    /\ popped = <<>>
    /\ lastpop = <<>>
    /\ NotMazeIdle

\* while priority_queue: ... falls through: return -1
MazeReturnNoPath ==
    /\ maze_pc = "loop"
    /\ priority_queue = EmptyBag
    /\ maze_result' = -1
    /\ maze_pc' = "done"
    /\ UNCHANGED <<grid, start, end, visited, priority_queue, popped, lastpop>>
    /\ UNCHANGED notMazeVars

\* heappop; if (x, y) == end: return cost
MazeReturnCost ==
    /\ maze_pc = "loop"
    /\ priority_queue # EmptyBag
    /\ LET e == HeapMin(priority_queue) IN
          /\ <<e[2], e[3]>> = end
          /\ priority_queue' = HeapRemove(priority_queue, e)
          /\ lastpop' = e
          /\ maze_result' = e[1]
    /\ maze_pc' = "done"
    /\ UNCHANGED <<grid, start, end, visited, popped>>
    /\ UNCHANGED notMazeVars

\* heappop; if (x, y, facing) in visited: continue
MazeSkipVisited ==
    /\ maze_pc = "loop"
    /\ priority_queue # EmptyBag
    /\ LET e == HeapMin(priority_queue) IN
          /\ <<e[2], e[3]>> # end
          /\ IsVisited(visited, e[2], e[3], e[4])
          /\ priority_queue' = HeapRemove(priority_queue, e)
          /\ lastpop' = e
    /\ UNCHANGED <<grid, start, end, visited, maze_pc, maze_result, popped>>
    /\ UNCHANGED notMazeVars

\* heappop; visited.add; push the move forward and the two rotations
MazeExpand ==
    /\ maze_pc = "loop"
    /\ priority_queue # EmptyBag
    /\ LET e == HeapMin(priority_queue)
           s == <<e[2], e[3], e[4]>>
       IN /\ <<e[2], e[3]>> # end
          /\ ~IsVisited(visited, e[2], e[3], e[4])
          /\ visited' = visited \cup {s}
          /\ priority_queue' =
                HeapRemove(priority_queue, e) (+) MazePushes(grid, e[1], e[2], e[3], e[4])
          /\ lastpop' = e
          /\ popped' = IF s \in DOMAIN popped
                       THEN [popped EXCEPT ![s] = Append(@, e[1])]
                       ELSE [t \in DOMAIN popped \cup {s} |->
                                IF t = s THEN <<e[1]>> ELSE popped[t]]
    /\ UNCHANGED <<grid, start, end, maze_pc, maze_result>>
    /\ UNCHANGED notMazeVars

MazeNext == MazeReturnNoPath \/ MazeReturnCost \/ MazeSkipVisited \/ MazeExpand

SpecMaze == MazeInit /\ [][MazeNext]_vars
FairSpecMaze == SpecMaze /\ WF_vars(MazeNext)

(***************************************************************************)
(* day16: the call reindeer_maze(grid, start, end) from its first line,    *)
(* on every grid parse_input can return, with or without 'S' and 'E'.      *)
(***************************************************************************)
\* start = end = None: the position parse_input returns for a letter that is
\* not in the grid.
NoPosition == <<>>

\* start is None or end is None
MissingPositionMutant(s, e) == s = NoPosition
MissingPosition(s, e) == s = NoPosition \/ e = NoPosition

\* The state at the entry of reindeer_maze.
MazeCallInit ==
    /\ \E s \in MazeCells \cup {NoPosition}, e \in MazeCells \cup {NoPosition},
          walls \in SUBSET MazeCells :
          /\ s # e \/ s = NoPosition
          /\ walls \cap {s, e} = {}
          /\ Cardinality(walls) <= MaxWalls
          /\ grid = MazeGrid(s, e, walls)
          /\ start = s
          /\ end = e
    /\ visited = {}
    /\ priority_queue = EmptyBag
    /\ maze_pc = "call"
    /\ maze_result = NoValue
    /\ popped = <<>>
    /\ lastpop = <<>>
    /\ NotMazeIdle

\* raise ValueError("Start or end position not found in the grid.")
MazeRaise ==
    /\ maze_pc = "call"
    /\ MissingPosition(start, end)
    /\ maze_pc' = "raised"
    /\ maze_result' = "ValueError"
    /\ UNCHANGED <<grid, start, end, visited, priority_queue, popped, lastpop>>
    /\ UNCHANGED notMazeVars

\* visited = set(); priority_queue = []; heappush(priority_queue, (0, start[0], start[1], 0))
MazeStart ==
    /\ maze_pc = "call"
    /\ ~MissingPosition(start, end)
    /\ priority_queue' = SetToBag({<<0, start[1], start[2], 0>>})
    /\ maze_pc' = "loop"
    /\ UNCHANGED <<grid, start, end, visited, maze_result, popped, lastpop>>
    /\ UNCHANGED notMazeVars

MazeCallNext ==
    \/ MazeRaise \/ MazeStart
    \/ MazeReturnNoPath \/ MazeReturnCost \/ MazeSkipVisited \/ MazeExpand

SpecMazeCall == MazeCallInit /\ [][MazeCallNext]_vars

\* C17: when start or end is None the call raises ValueError, and nothing is
\* pushed on the heap, popped or marked visited before it does.
C17_RaisesBeforeAnyPush ==
    /\ (start = <<>> \/ end = <<>>) =>
          /\ maze_pc \in {"call", "raised"}
          /\ priority_queue = EmptyBag /\ visited = {}
          /\ popped = <<>> /\ lastpop = <<>>
          /\ maze_result = IF maze_pc = "raised" THEN "ValueError" ELSE NoValue
    /\ maze_pc = "raised" => (start = <<>> \/ end = <<>>)

\* The call has raised on a grid that has an 'S' and no 'E'.
C17_Witness == maze_pc = "raised" /\ start # <<>> /\ end = <<>>

(***************************************************************************)
(* day16: what the claims compare reindeer_maze with.  The reference is    *)
(* stated from the rules of the puzzle, not from the search: the cheapest  *)
(* cost of every (cell, facing) by relaxation to a fixed point.            *)
(***************************************************************************)
\* The legal steps from <<r, c, f>>: <<target, cost>>.
LegalSteps(g, st) ==
    LET r == st[1] + directions[st[3]][1]
        c == st[2] + directions[st[3]][2]
    IN  {<<<<st[1], st[2], (st[3] + 1) % 4>>, 1000>>,
         <<<<st[1], st[2], (st[3] + 3) % 4>>, 1000>>}
        \cup (IF r \in DOMAIN g /\ c \in DOMAIN g[0] /\ g[r][c] \in {".", "S", "E"}
              THEN {<<<<r, c, st[3]>>, 1>>} ELSE {})

RECURSIVE Cheapest(_, _)
Cheapest(g, D) ==
    LET cand == {<<s, D[s]>> : s \in DOMAIN D}
                \cup UNION {{<<t[1], D[s] + t[2]>> : t \in LegalSteps(g, s)} : s \in DOMAIN D}
        D2 == [s \in {c[1] : c \in cand} |-> SetMin({c[2] : c \in {x \in cand : x[1] = s}})]
    IN  IF D2 = D THEN D ELSE Cheapest(g, D2)

\* (cell, facing) |-> cheapest cost from the start cell facing East; reachable ones only.
CheapestCosts(g, s) == Cheapest(g, [st \in {<<s[1], s[2], 0>>} |-> 0])

\* The cheapest cost of reaching cell e in any facing, -1 when there is none.
CheapestTo(g, s, e) ==
    LET D == CheapestCosts(g, s)
        at == {st \in DOMAIN D : <<st[1], st[2]>> = e}
    IN  IF at = {} THEN -1 ELSE SetMin({D[st] : st \in at})

\* The cells joined to s by steps between 4-neighbours that are not '#'.
RECURSIVE JoinedCells(_, _)
JoinedCells(g, S) ==
    LET S2 == S \cup {n \in (DOMAIN g) \X (DOMAIN g[0]) :
                        /\ g[n[1]][n[2]] # "#"
                        /\ \E m \in S : Abs(m[1] - n[1]) + Abs(m[2] - n[2]) = 1}
    IN  IF S2 = S THEN S ELSE JoinedCells(g, S2)

EndReachable == end \in JoinedCells(grid, {start})

\* C1: when reindeer_maze returns and some sequence of moves and rotations
\* leads from the start cell facing East to the end cell, the value returned
\* is the least total cost of such a sequence (1 per move, 1000 per rotation).
C1_MinimumCost ==
    (maze_pc = "done" /\ EndReachable) => maze_result = CheapestTo(grid, start, end)

\* A search that returned a cost paying for rotations and for moves.
C1_Witness ==
    /\ maze_pc = "done"
    /\ maze_result > 2000
    /\ maze_result % 1000 >= 2

\* C3: when the end cell cannot be reached from the start cell through
\* non-# cells, reindeer_maze terminates, and the value it returns is -1.
C3_UnreachableSentinel ==
    /\ (~EndReachable) => <>(maze_pc = "done")
    /\ [](maze_pc = "done" /\ ~EndReachable => maze_result = -1)

\* A search that emptied its heap after expanding states, and returned -1.
C3_Witness ==
    /\ maze_pc = "done"
    /\ ~EndReachable
    /\ maze_result = -1
    /\ Cardinality(visited) >= 8

\* C4: every state added to visited was popped with the least cost of any
\* move/rotate sequence from the start state to it, and no entry popped
\* since for a settled state has a lower cost.
C4_SettledCostIsMinimal ==
    LET D == CheapestCosts(grid, start) IN
    /\ \A s \in DOMAIN popped :
          /\ s \in DOMAIN D
          /\ \A i \in 1..Len(popped[s]) : popped[s][i] = D[s]
    /\ (lastpop # <<>> /\ <<lastpop[2], lastpop[3], lastpop[4]>> \in DOMAIN popped)
          => lastpop[1] >= popped[<<lastpop[2], lastpop[3], lastpop[4]>>][1]

\* A state settled at a cost that pays for two rotations and a move, and
\* a later, dearer entry for a settled state popped.
C4_Witness ==
    /\ \E s \in DOMAIN popped : popped[s][1] > 2000 /\ popped[s][1] % 1000 >= 1
    /\ lastpop # <<>>
    /\ <<lastpop[2], lastpop[3], lastpop[4]>> \in DOMAIN popped
    /\ lastpop[1] > popped[<<lastpop[2], lastpop[3], lastpop[4]>>][1]

\* C5: every (row, col, facing) state has its successors pushed at most
\* once, and the states expanded are exactly the ones in visited.
C5_ExpandedAtMostOnce ==
    /\ DOMAIN popped = visited
    /\ \A s \in DOMAIN popped : Len(popped[s]) <= 1

\* An entry for a state already in visited was popped and skipped.
C5_Witness ==
    /\ maze_pc = "loop"
    /\ lastpop # <<>>
    /\ <<lastpop[2], lastpop[3], lastpop[4]>> \in visited
    /\ popped[<<lastpop[2], lastpop[3], lastpop[4]>>] = <<lastpop[1] - 2000>>

(***************************************************************************)
(* day16: reindeer_maze_part2                                              *)
(* Positions and headings are complex numbers in the code; here p is       *)
(* <<x, y>> for complex(x, y) and v is <<vx, vy>>.                         *)
(***************************************************************************)
\* inf = float('inf'): above every cost of a bounded maze.
inf == 1000000000

\* The grids of the puzzle: the cells of MazeGrid inside a border of '#'.
BorderedBoard(s, e, walls) ==
    [y \in 0..(MazeRows + 1) |-> [x \in 0..(MazeCols + 1) |->
        IF y \in 1..MazeRows /\ x \in 1..MazeCols
        THEN MazeGrid(s, e, walls)[y - 1][x - 1] ELSE "#"]]

\* getch(c) = board[int(c.imag)][int(c.real)]
getch(b, c) == b[c[2]][c[1]]

\* The scan of lines 148-152: the position of the cell holding ch.
FindCell(b, ch) ==
    CHOOSE c \in (DOMAIN b[0]) \X (DOMAIN b) : b[c[2]][c[1]] = ch

\* Complex product v * 1j and v * -1j.
TimesJ(v) == <<-v[2], v[1]>>
TimesMinusJ(v) == <<v[2], -v[1]>>

\* estimate_cost(p) without its last term abs(p - end), an integer.
EstimateInt(p, e) ==
    100 * (Abs(p[1] - e[1]) + Abs(p[2] - e[2]))
    + (IF e[2] # p[2] THEN 1500 ELSE 0) + (IF e[1] # p[1] THEN 1500 ELSE 0) + Abs(p[1])

\* The square of abs(p - end).
DistSquared(p, e) == (p[1] - e[1]) * (p[1] - e[1]) + (p[2] - e[2]) * (p[2] - e[2])

\* i1 + sqrt(a) < i2 + sqrt(b), decided in integers.
SumLess(i1, a, i2, b) ==
    LET k == i2 - i1 IN
    IF k > 0
    THEN LET l == a - k * k - b IN l < 0 \/ l * l < 4 * k * k * b
    ELSE LET r == b + k * k - a IN b > k * k /\ r > 0 /\ 4 * k * k * b < r * r

\* Node.__lt__: self.priority < value.priority, priority = cost + estimate_cost(p)
NodeLess(n1, n2, e) ==
    SumLess(n1.cost + EstimateInt(n1.p, e), DistSquared(n1.p, e),
            n2.cost + EstimateInt(n2.p, e), DistSquared(n2.p, e))

\* strict_visited.get(key, inf)
VisitedGet(sv, key) == IF key \in DOMAIN sv THEN sv[key] ELSE inf

\* make_rotations(node): the quarter turns whose next cell is not '#'
make_rotations(b, node) ==
    (IF getch(b, <<node.p[1] + TimesJ(node.v)[1], node.p[2] + TimesJ(node.v)[2]>>) # "#"
     THEN {TimesJ(node.v)} ELSE {})
    \cup
    (IF getch(b, <<node.p[1] + TimesMinusJ(node.v)[1], node.p[2] + TimesMinusJ(node.v)[2]>>) # "#"
     THEN {TimesMinusJ(node.v)} ELSE {})

\* The nodes one iteration puts on the queue (lines 178-187); sv is
\* strict_visited after line 176.
Maze2Pushes(b, sv, state) ==
    LET turns == {[cost |-> 1000 + state.cost, p |-> state.p, v |-> newv, tiles |-> state.tiles] :
                    newv \in {w \in make_rotations(b, state) :
                                 VisitedGet(sv, <<state.p, w>>) >= 1000 + state.cost}}
        newp == <<state.p[1] + state.v[1], state.p[2] + state.v[2]>>
        ahead == IF getch(b, newp) # "#" /\ VisitedGet(sv, <<newp, state.v>>) >= state.cost + 1
                 THEN {[cost |-> state.cost + 1, p |-> newp, v |-> state.v,
                        tiles |-> state.tiles \cup {newp}]}
                 ELSE {}
    IN  SetToBag(turns \cup ahead)

\* The state after lines 139-172: the queue holds the start node, heading 1+0j.
Maze2Init ==
    /\ \E s \in MazeCells, e \in MazeCells, walls \in SUBSET MazeCells :
          /\ s # e
          /\ walls \cap {s, e} = {}
          /\ Cardinality(walls) <= MaxWalls
          /\ board = BorderedBoard(s, e, walls)
    /\ q = SetToBag({[cost |-> 0, p |-> FindCell(board, "S"), v |-> <<1, 0>>,
                      tiles |-> {FindCell(board, "S")}]})
    /\ strict_visited = <<>>
    /\ md = inf
    /\ best = <<>>
    /\ maze2_pc = "loop"
    /\ maze2_result = NoValue
    /\ NotMaze2Idle

\* One iteration of `while not q.empty()` (lines 175-191).
Maze2Step ==
    /\ maze2_pc = "loop"
    /\ q # EmptyBag
    /\ \E state \in BagToSet(q) :
          /\ \A other \in BagToSet(q) : ~NodeLess(other, state, FindCell(board, "E"))
          /\ LET key == <<state.p, state.v>>
                 c == IF VisitedGet(strict_visited, key) < state.cost
                      THEN VisitedGet(strict_visited, key) ELSE state.cost
                 sv == [k \in DOMAIN strict_visited \cup {key} |->
                           IF k = key THEN c ELSE strict_visited[k]]
             IN /\ strict_visited' = sv
                /\ q' = (q (-) SetToBag({state})) (+) Maze2Pushes(board, sv, state)
                /\ IF getch(board, state.p) = "E" /\ md >= state.cost
                   THEN /\ md' = (IF md < state.cost THEN md ELSE state.cost)
                        /\ best' = Append(best, state)
                   ELSE UNCHANGED <<md, best>>
    /\ UNCHANGED <<board, maze2_pc, maze2_result>>
    /\ UNCHANGED notMaze2Vars

\* Lines 193-197: the union of the tiles of the nodes of best with cost md.
Maze2Return ==
    /\ maze2_pc = "loop"
    /\ q = EmptyBag
    /\ maze2_result' = Cardinality(UNION {best[i].tiles : i \in {j \in DOMAIN best : best[j].cost = md}})
    /\ maze2_pc' = "done"
    /\ UNCHANGED <<board, q, strict_visited, md, best>>
    /\ UNCHANGED notMaze2Vars

Maze2Next == Maze2Step \/ Maze2Return

SpecMaze2 == Maze2Init /\ [][Maze2Next]_vars

\* The least cost from every (cell, facing) to the end cell in any facing:
\* a sequence read backwards, both facings turned round, is a sequence of
\* the same cost, so the costs from the end cell in the four facings give it.
CostsToEnd(g, e) ==
    LET B == Cheapest(g, [st \in {<<e[1], e[2], f>> : f \in 0..3} |-> 0])
    IN  [st \in {<<t[1], t[2], (t[3] + 2) % 4>> : t \in DOMAIN B} |->
            B[<<st[1], st[2], (st[3] + 2) % 4>>]]

\* The cells of b on at least one cheapest sequence from 'S' facing East to 'E'.
BestPathCells(b) ==
    LET s == <<FindCell(b, "S")[2], FindCell(b, "S")[1]>>
        e == <<FindCell(b, "E")[2], FindCell(b, "E")[1]>>
        D == CheapestCosts(b, s)
        T == CostsToEnd(b, e)
        least == CheapestTo(b, s, e)
    IN  {<<st[1], st[2]>> : st \in {t \in DOMAIN D \cap DOMAIN T : D[t] + T[t] = least}}

\* C2: reindeer_maze_part2 returns the number of cells that lie on at least
\* one minimum-cost path from S facing East to E.
C2_CountsBestPathCells ==
    maze2_pc = "done" => maze2_result = Cardinality(BestPathCells(board))

(***************************************************************************)
(* day23: find_cliques, find_largest_clique, generate_password             *)
(* A node is the rank of its name among the names of the file, so that <   *)
(* on nodes is Python's < on the names.                                    *)
(***************************************************************************)
Nodes == 1..MaxNodes

\* The names the ranks stand for, in increasing order.
NodeName(n) == CASE n = 1 -> "co" [] n = 2 -> "de" [] n = 3 -> "ka" [] n = 4 -> "ta" [] OTHER -> "yn"

\* The lines "a-b" of an input file that names each link once, lower name
\* first, in increasing order.
RECURSIVE SortedLines(_)
SortedLines(E) ==
    IF E = {} THEN <<>>
    ELSE LET l == CHOOSE x \in E : \A y \in E : x = y \/ TupleLess(x, y)
         IN  <<l>> \o SortedLines(E \ {l})

\* parse_connections: connections[a].append(b); connections[b].append(a)
RECURSIVE parse_connections(_)
parse_connections(lines) ==
    IF lines = <<>> THEN <<>>
    ELSE LET c == parse_connections(SubSeq(lines, 1, Len(lines) - 1))
             a == lines[Len(lines)][1]
             b == lines[Len(lines)][2]
             ca == [n \in DOMAIN c \cup {a} |->
                      IF n = a THEN (IF a \in DOMAIN c THEN c[a] ELSE <<>>) \o <<b>> ELSE c[n]]
         IN  [n \in DOMAIN ca \cup {b} |->
                 IF n = b THEN (IF b \in DOMAIN ca THEN ca[b] ELSE <<>>) \o <<a>> ELSE ca[n]]

\* The elements of the list connections[v].
Neighbours(conn, v) == {conn[v][i] : i \in DOMAIN conn[v]}

\* The call bron_kerbosch(R, P, X, cliques) at its entry.
Call(R, P, X) == [R |-> R, P |-> P, X |-> X, v |-> 0, fresh |-> TRUE]

\* A caller that goes on with P.remove(v) alone.
ReturnedMutant(stack) ==
    LET n == Len(stack) - 1 IN
    IF n = 0 THEN <<>>
    ELSE [SubSeq(stack, 1, n) EXCEPT ![n] = [@ EXCEPT !.P = @ \ {stack[n].v}, !.v = 0]]

\* The stack after the innermost call returns: its caller goes on with
\* P.remove(v); X.add(v).
Returned(stack) ==
    LET n == Len(stack) - 1 IN
    IF n = 0 THEN <<>>
    ELSE [SubSeq(stack, 1, n) EXCEPT ![n] =
            [@ EXCEPT !.P = @ \ {stack[n].v}, !.X = @ \cup {stack[n].v}, !.v = 0]]

\* max(cliques, key=len) if cliques else set(): the first of the longest.
find_largest_clique(cl) ==
    IF cl = <<>> THEN {}
    ELSE cl[CHOOSE i \in DOMAIN cl :
                /\ \A j \in DOMAIN cl : Cardinality(cl[j]) <= Cardinality(cl[i])
                /\ \A j \in 1..(i - 1) : Cardinality(cl[j]) < Cardinality(cl[i])]

\* sorted(clique)
RECURSIVE sorted(_)
sorted(S) ==
    IF S = {} THEN <<>>
    ELSE LET m == CHOOSE x \in S : \A y \in S : x <= y IN <<m>> \o sorted(S \ {m})

\* ','.join(sorted(clique)): the names in order; the commas add nothing.
generate_password(clique) == [i \in DOMAIN sorted(clique) |-> NodeName(sorted(clique)[i])]

\* The state at the first call, line 76.
LanInit ==
    /\ \E E \in SUBSET {l \in Nodes \X Nodes : l[1] < l[2]} :
          connections = parse_connections(SortedLines(E))
    /\ bk_stack = <<Call({}, DOMAIN connections, {})>>
    /\ cliques = <<>>
    /\ lan_pc = "cliques"
    /\ passwords = <<>>
    /\ NotLanIdle

\* if not P and not X: cliques.append(R); return
BKBase ==
    /\ lan_pc = "cliques" /\ bk_stack # <<>>
    /\ LET top == bk_stack[Len(bk_stack)] IN
          /\ top.fresh /\ top.P = {} /\ top.X = {}
          /\ cliques' = Append(cliques, top.R)
    /\ bk_stack' = Returned(bk_stack)
    /\ UNCHANGED <<connections, lan_pc, passwords>>
    /\ UNCHANGED notLanVars

\* for v in list(P): bron_kerbosch(R.union([v]), P & connections[v], X & connections[v])
\* The order of list(P) is the set's: any element not yet taken may come next.
BKCall ==
    /\ lan_pc = "cliques" /\ bk_stack # <<>>
    /\ LET n == Len(bk_stack)
           top == bk_stack[n]
       IN /\ ~(top.fresh /\ top.P = {} /\ top.X = {})
          /\ \E v \in top.P :
                bk_stack' = Append([bk_stack EXCEPT ![n] = [@ EXCEPT !.v = v, !.fresh = FALSE]],
                                   Call(top.R \cup {v},
                                        top.P \cap Neighbours(connections, v),
                                        top.X \cap Neighbours(connections, v)))
    /\ UNCHANGED <<connections, cliques, lan_pc, passwords>>
    /\ UNCHANGED notLanVars

\* The for loop is over: the call returns.
BKReturn ==
    /\ lan_pc = "cliques" /\ bk_stack # <<>>
    /\ LET top == bk_stack[Len(bk_stack)] IN
          /\ ~(top.fresh /\ top.P = {} /\ top.X = {})
          /\ top.P = {}
    /\ bk_stack' = Returned(bk_stack)
    /\ UNCHANGED <<connections, cliques, lan_pc, passwords>>
    /\ UNCHANGED notLanVars

\* find_cliques returns; the password of the largest clique is made.
LanPassword ==
    /\ lan_pc = "cliques" /\ bk_stack = <<>>
    /\ passwords' = Append(passwords, generate_password(find_largest_clique(cliques)))
    /\ lan_pc' = "done"
    /\ UNCHANGED <<connections, bk_stack, cliques>>
    /\ UNCHANGED notLanVars

\* The script is run again on the same file.
LanRunAgain ==
    /\ lan_pc = "done" /\ Len(passwords) < MaxRuns
    /\ bk_stack' = <<Call({}, DOMAIN connections, {})>>
    /\ cliques' = <<>>
    /\ lan_pc' = "cliques"
    /\ UNCHANGED <<connections, passwords>>
    /\ UNCHANGED notLanVars

LanNext == BKBase \/ BKCall \/ BKReturn \/ LanPassword \/ LanRunAgain

SpecLan == LanInit /\ [][LanNext]_vars

\* C6: the password does not depend on the iteration order of the sets:
\* every run on one input file gives the same password.
C6_PasswordDeterministic ==
    \A i \in DOMAIN passwords, j \in DOMAIN passwords : passwords[i] = passwords[j]

\* The undirected graph of the file: a and b are joined when b is in the list
\* of a.
Linked(a, b) == \E i \in DOMAIN connections[a] : connections[a][i] = b

\* The sets of nodes that are pairwise joined and that no further node can
\* be added to.
MaximalCliques ==
    {S \in SUBSET DOMAIN connections :
        /\ \A a \in S, b \in S : a = b \/ Linked(a, b)
        /\ \A n \in (DOMAIN connections) \ S : \E a \in S : ~Linked(n, a)}

RECURSIVE LineLists(_)
LineLists(n) ==
    IF n = 0 THEN {<<>>}
    ELSE LineLists(n - 1) \cup
         {Append(ls, l) : ls \in {x \in LineLists(n - 1) : Len(x) = n - 1}, l \in Nodes \X Nodes}

\* The keys of the defaultdict in the order parse_connections creates them:
\* connections[a] first, then connections[b], line after line.
RECURSIVE KeyOrder(_)
KeyOrder(lines) ==
    IF lines = <<>> THEN <<>>
    ELSE LET ks == KeyOrder(SubSeq(lines, 1, Len(lines) - 1))
             a == lines[Len(lines)][1]
             b == lines[Len(lines)][2]
             ka == IF \E i \in DOMAIN ks : ks[i] = a THEN ks ELSE Append(ks, a)
         IN  IF \E i \in DOMAIN ka : ka[i] = b THEN ka ELSE Append(ka, b)

\* for c in connections[b], over the first k elements of the list:
\*     if c in connections[a] and a < b < c: triangles.append((a, b, c))
RECURSIVE ForC(_, _, _, _)
ForC(conn, a, b, k) ==
    IF k = 0 THEN <<>>
    ELSE LET c == conn[b][k] IN
         ForC(conn, a, b, k - 1) \o
         (IF c \in Neighbours(conn, a) /\ a < b /\ b < c THEN << <<a, b, c>> >> ELSE <<>>)

\* for b in connections[a], over the first k elements of the list.
RECURSIVE ForB(_, _, _)
ForB(conn, a, k) ==
    IF k = 0 THEN <<>>
    ELSE ForB(conn, a, k - 1) \o ForC(conn, a, conn[a][k], Len(conn[conn[a][k]]))

\* The state at the call find_triangles(parse_connections(file)).
TriInit ==
    /\ \E lines \in LineLists(MaxLines) :
          /\ tri_connections = parse_connections(lines)
          /\ tri_keys = KeyOrder(lines)
    /\ tri_index = 0
    /\ triangles = <<>>
    /\ tri_pc = "loop"
    /\ NotTriIdle

\* One turn of `for a in connections`.
TriForA ==
    /\ tri_pc = "loop" /\ tri_index < Len(tri_keys)
    /\ LET a == tri_keys[tri_index + 1] IN
          triangles' = triangles \o ForB(tri_connections, a, Len(tri_connections[a]))
    /\ tri_index' = tri_index + 1
    /\ UNCHANGED <<tri_connections, tri_keys, tri_pc>>
    /\ UNCHANGED notTriVars

\* return triangles
TriReturn ==
    /\ tri_pc = "loop" /\ tri_index = Len(tri_keys)
    /\ tri_pc' = "done"
    /\ UNCHANGED <<tri_connections, tri_keys, tri_index, triangles>>
    /\ UNCHANGED notTriVars

TriNext == TriForA \/ TriReturn

SpecTriangles == TriInit /\ [][TriNext]_vars

\* The sets of three nodes of the map that are joined two by two.
TriLinked(a, b) == \E i \in DOMAIN tri_connections[a] : tri_connections[a][i] = b
ThreeCliques ==
    {S \in SUBSET DOMAIN tri_connections :
        Cardinality(S) = 3 /\ \A a \in S, b \in S : a = b \/ TriLinked(a, b)}

\* C12: the list find_triangles returns holds every set of three mutually
\* connected nodes exactly once, as a tuple in increasing order.
C12_EachTriangleOnce ==
    tri_pc = "done" =>
        /\ \A i \in DOMAIN triangles :
              triangles[i][1] < triangles[i][2] /\ triangles[i][2] < triangles[i][3]
        /\ {{triangles[i][1], triangles[i][2], triangles[i][3]} : i \in DOMAIN triangles}
              = ThreeCliques
        /\ \A i \in DOMAIN triangles, j \in DOMAIN triangles :
              triangles[i] = triangles[j] => i = j

\* What does hold: every tuple is increasing and the tuples, as sets, are
\* the sets of three mutually connected nodes.
TrianglesAsSets ==
    tri_pc = "done" =>
        /\ \A i \in DOMAIN triangles :
              triangles[i][1] < triangles[i][2] /\ triangles[i][2] < triangles[i][3]
        /\ {{triangles[i][1], triangles[i][2], triangles[i][3]} : i \in DOMAIN triangles}
              = ThreeCliques

(***************************************************************************)
(* day24: simulate_gates                                                   *)
(***************************************************************************)
\* The wire names of the model, in the order the inputs of a gate are named.
WireNames == <<"x00", "abc", "z00">>
Wires == {WireNames[i] : i \in DOMAIN WireNames}

\* output.startswith("z")
StartsWithZ(w) == w \in {"z00"}

GateType == {"AND", "OR", "XOR"}

\* The gate lines parse_input reads in the model: two input wires named in
\* the order of WireNames, a gate type, and an output wire that is no wire
\* of initial_values.
GateLines ==
    {<<WireNames[i], g, WireNames[j], o>> :
        i \in DOMAIN WireNames, j \in DOMAIN WireNames, g \in GateType, o \in {"abc", "z00"}}
    \ {l \in Wires \X GateType \X Wires \X Wires :
          \E i, j \in DOMAIN WireNames : i > j /\ l[1] = WireNames[i] /\ l[3] = WireNames[j]}

\* The lists of at most n gate lines.
RECURSIVE GateLists(_)
GateLists(n) ==
    IF n = 0 THEN {<<>>}
    ELSE GateLists(n - 1) \cup {Append(l, g) : l \in {k \in GateLists(n - 1) : Len(k) = n - 1}, g \in GateLines}

\* An evaluate_gate that takes the XOR branch for an OR.
evaluate_gateMutant(gate, value1, value2) ==
    CASE gate = "AND" -> IF value1 = 1 /\ value2 = 1 THEN 1 ELSE 0
      [] gate = "OR"  -> IF value1 # value2 THEN 1 ELSE 0
      [] gate = "XOR" -> IF value1 # value2 THEN 1 ELSE 0

\* evaluate_gate(gate, value1, value2) on bits: &, | and ^
evaluate_gate(gate, value1, value2) ==
    CASE gate = "AND" -> IF value1 = 1 /\ value2 = 1 THEN 1 ELSE 0
      [] gate = "OR"  -> IF value1 = 1 \/ value2 = 1 THEN 1 ELSE 0
      [] gate = "XOR" -> IF value1 # value2 THEN 1 ELSE 0

\* {output for _, _, _, output in gate_connections if output.startswith("z")}
ZOutputs(gates) == {gates[i][4] : i \in {j \in DOMAIN gates : StartsWithZ(gates[j][4])}}

\* if input1 in current_values and input2 in current_values
InputsKnown(cv, gate) == gate[1] \in DOMAIN cv /\ gate[3] \in DOMAIN cv

\* if output in pending_outputs: pending_outputs.remove(output)
PendingAfter(pending, output) == pending \ {output}

\* The position after gate i of the for loop: the next gate, or the while test.
NextIndex(gates, i) == IF i < Len(gates) THEN i + 1 ELSE 0

\* The state after lines 62-63.
GatesInit ==
    /\ \E b \in {0, 1} : initial_values = [w \in {"x00"} |-> b]
    /\ gate_connections \in GateLists(MaxGates)
    /\ current_values = initial_values
    /\ pending_outputs = ZOutputs(gate_connections)
    /\ gate_index = 0
    /\ gates_pc = "loop"
    /\ NotGatesIdle

\* while pending_outputs: true, the for loop starts over
GatesPass ==
    /\ gates_pc = "loop" /\ gate_index = 0
    /\ pending_outputs # {}
    /\ gate_index' = NextIndex(gate_connections, 0)
    /\ UNCHANGED <<initial_values, gate_connections, current_values, pending_outputs, gates_pc>>
    /\ UNCHANGED notGatesVars

\* while pending_outputs: false, return current_values
GatesReturn ==
    /\ gates_pc = "loop" /\ gate_index = 0
    /\ pending_outputs = {}
    /\ gates_pc' = "done"
    /\ UNCHANGED <<initial_values, gate_connections, current_values, pending_outputs, gate_index>>
    /\ UNCHANGED notGatesVars

\* The body of the for loop for a gate whose inputs have values.
GatesEvaluate ==
    /\ gates_pc = "loop" /\ gate_index > 0
    /\ LET gate == gate_connections[gate_index] IN
          /\ InputsKnown(current_values, gate)
          /\ current_values' =
                [w \in DOMAIN current_values \cup {gate[4]} |->
                    IF w = gate[4]
                    THEN evaluate_gate(gate[2], current_values[gate[1]], current_values[gate[3]])
                    ELSE current_values[w]]
          /\ pending_outputs' = PendingAfter(pending_outputs, gate[4])
    /\ gate_index' = NextIndex(gate_connections, gate_index)
    /\ UNCHANGED <<initial_values, gate_connections, gates_pc>>
    /\ UNCHANGED notGatesVars

\* The body of the for loop for a gate with an input that has no value.
GatesSkip ==
    /\ gates_pc = "loop" /\ gate_index > 0
    /\ ~InputsKnown(current_values, gate_connections[gate_index])
    /\ gate_index' = NextIndex(gate_connections, gate_index)
    /\ UNCHANGED <<initial_values, gate_connections, current_values, pending_outputs, gates_pc>>
    /\ UNCHANGED notGatesVars

GatesNext == GatesPass \/ GatesReturn \/ GatesEvaluate \/ GatesSkip

SpecGates == GatesInit /\ [][GatesNext]_vars
\* The interpreter always takes the next step of a running script.
FairSpecGates == SpecGates /\ WF_vars(GatesNext)

\* The wires that get a value from the initial wires through the gates.
RECURSIVE Derivable(_, _)
Derivable(gates, K) ==
    LET K2 == K \cup {gates[i][4] : i \in {j \in DOMAIN gates : gates[j][1] \in K /\ gates[j][3] \in K}}
    IN  IF K2 = K THEN K ELSE Derivable(gates, K2)

AllZDerivable == ZOutputs(gate_connections) \subseteq Derivable(gate_connections, DOMAIN initial_values)

ZOutputsHaveValues ==
    gates_pc = "done" => ZOutputs(gate_connections) \subseteq DOMAIN current_values

\* C7: simulate_gates terminates for every pair parse_input returns, and on
\* return every gate output wire whose name starts with 'z' has a value.
C7_AlwaysTerminates == <>(gates_pc = "done") /\ []ZOutputsHaveValues

\* What does hold: when every z gate output can be derived from the initial
\* wires through the gates, the simulation terminates.
GatesTerminateWhenDerivable == AllZDerivable => <>(gates_pc = "done")

(***************************************************************************)
(* day24: simulate_gates on files whose first section may also give a      *)
(* value to the wire abc, so that a gate can have an initial wire as its   *)
(* output.                                                                 *)
(***************************************************************************)
\* The state after lines 62-63.
GatesValuesInit ==
    /\ \E named \in {{"x00"}, {"x00", "abc"}} : initial_values \in [named -> {0, 1}]
    /\ gate_connections \in GateLists(MaxGates)
    /\ current_values = initial_values
    /\ pending_outputs = ZOutputs(gate_connections)
    /\ gate_index = 0
    /\ gates_pc = "loop"
    /\ NotGatesIdle

SpecGatesValues == GatesValuesInit /\ [][GatesNext]_vars

\* The three gates as arithmetic on bits.
GateFunction(gate, a, b) ==
    CASE gate = "AND" -> a * b
      [] gate = "OR"  -> a + b - a * b
      [] gate = "XOR" -> (a + b) % 2

InitialWiresKept ==
    \A w \in DOMAIN initial_values :
        w \in DOMAIN current_values /\ current_values[w] = initial_values[w]

\* C16: the values simulate_gates returns are consistent with the circuit:
\* the value of every gate output is the gate applied to the values of its
\* two inputs, and every initial wire has its initial value.
C16_ValuesConsistent ==
    gates_pc = "done" =>
        /\ \A i \in DOMAIN gate_connections :
              LET gate == gate_connections[i] IN
              (gate[4] \in DOMAIN current_values /\ InputsKnown(current_values, gate)) =>
                 current_values[gate[4]] =
                    GateFunction(gate[2], current_values[gate[1]], current_values[gate[3]])
        /\ InitialWiresKept

\* Each wire is the output of at most one gate.
SingleDriver ==
    \A i \in DOMAIN gate_connections, j \in DOMAIN gate_connections :
        gate_connections[i][4] = gate_connections[j][4] => i = j

\* No wire of initial_values is the output of a gate.
NoInitialOutput ==
    \A i \in DOMAIN gate_connections : gate_connections[i][4] \notin DOMAIN initial_values

\* C16, amended: when each wire is the output of at most one gate and no
\* initial wire is a gate output, every gate output that has a value in the
\* result has inputs with values and is the gate applied to them, and every
\* initial wire has its initial value.
C16_ConsistentWhenSingleDriver ==
    (gates_pc = "done" /\ SingleDriver /\ NoInitialOutput) =>
        /\ \A i \in DOMAIN gate_connections :
              LET gate == gate_connections[i] IN
              gate[4] \in DOMAIN current_values =>
                 /\ gate[1] \in DOMAIN current_values
                 /\ gate[3] \in DOMAIN current_values
                 /\ current_values[gate[4]] =
                       GateFunction(gate[2], current_values[gate[1]], current_values[gate[3]])
        /\ InitialWiresKept

\* simulate_gates has returned on a circuit of two gates, each wire driven
\* once and no initial wire driven, where the first gate of the file reads
\* the output of the second: its value comes in the second pass.
C16_Witness ==
    /\ gates_pc = "done" /\ SingleDriver /\ NoInitialOutput
    /\ Len(gate_connections) >= 2
    /\ gate_connections[1][1] = gate_connections[2][4]
    /\ gate_connections[1][4] \in DOMAIN current_values

(***************************************************************************)
(* day18: find_shortest_path, find_first_blocking_coordinate               *)
(***************************************************************************)
\* abs(x1 - x2) + abs(y1 - y2)
calculate_manhattan_distance(x1, y1, x2, y2) == Abs(x1 - x2) + Abs(y1 - y2)

\* find_valid_neighbors(x, y, blocked_coords, max_coord)
find_valid_neighbors(x, y, blocked, m) ==
    {n \in {<<x, y + 1>>, <<x + 1, y>>, <<x, y - 1>>, <<x - 1, y>>} :
        /\ 0 <= n[1] /\ n[1] <= m
        /\ 0 <= n[2] /\ n[2] <= m
        /\ n \notin blocked}

\* The square find_first_blocking_coordinate searches.  The code passes 70;
\* the model passes MaxCoord, and the coordinates of the file lie in it.
BlockingMaxCoord == MaxCoord

RamCells == (0..MaxCoord) \X (0..MaxCoord)

\* The sequences of at most n coordinates.
RECURSIVE CoordinateLists(_)
CoordinateLists(n) ==
    IF n = 0 THEN {<<>>}
    ELSE CoordinateLists(n - 1)
         \cup {Append(l, c) : l \in {k \in CoordinateLists(n - 1) : Len(k) = n - 1}, c \in RamCells}

\* Lines 66-70: open_set = [(manhattan(0, 0, max, max), (0, 0))]; g_scores = {(0, 0): 0}
StartOpenSet(m) == SetToBag({<<calculate_manhattan_distance(0, 0, m, m), 0, 0>>})
StartScores == [c \in {<<0, 0>>} |-> 0]

\* The neighbours of current that lines 81-84 give a score and push.
Improved(current, gs, blocked, m) ==
    {n \in find_valid_neighbors(current[1], current[2], blocked, m) :
        n \notin DOMAIN gs \/ gs[current] + 1 < gs[n]}

\* find_shortest_path called on its own (solve_min_steps): any blocked set.
PathInit ==
    /\ coordinates = <<>> /\ coord_index = 0
    /\ blocked_coords \in {b \in SUBSET RamCells : Cardinality(b) <= MaxBlocked}
    /\ max_coord \in 1..MaxCoord
    /\ open_set = StartOpenSet(max_coord)
    /\ g_scores = StartScores
    /\ path_result = NoValue /\ blocking_result = NoValue
    /\ ram_pc = "search"
    /\ NotRamIdle

\* heappop; if current == goal: return g_scores[current]
PathReturnGoal ==
    /\ ram_pc = "search" /\ open_set # EmptyBag
    /\ LET e == HeapMin(open_set) IN
          /\ <<e[2], e[3]>> = <<max_coord, max_coord>>
          /\ open_set' = HeapRemove(open_set, e)
          /\ path_result' = g_scores[<<e[2], e[3]>>]
    /\ ram_pc' = "returned"
    /\ UNCHANGED <<coordinates, coord_index, blocked_coords, max_coord, g_scores, blocking_result>>
    /\ UNCHANGED notRamVars

\* heappop; score and push the neighbours that improve
PathExpand ==
    /\ ram_pc = "search" /\ open_set # EmptyBag
    /\ LET e == HeapMin(open_set)
           current == <<e[2], e[3]>>
           better == Improved(current, g_scores, blocked_coords, max_coord)
           tentative_g_score == g_scores[current] + 1
       IN /\ current # <<max_coord, max_coord>>
          /\ g_scores' = [n \in DOMAIN g_scores \cup better |->
                            IF n \in better THEN tentative_g_score ELSE g_scores[n]]
          /\ open_set' = HeapRemove(open_set, e) (+)
                SetToBag({<<tentative_g_score
                            + calculate_manhattan_distance(n[1], n[2], max_coord, max_coord),
                            n[1], n[2]>> : n \in better})
    /\ UNCHANGED <<coordinates, coord_index, blocked_coords, max_coord, path_result,
                   blocking_result, ram_pc>>
    /\ UNCHANGED notRamVars

\* while open_set: ... falls through: return -1
PathReturnNone ==
    /\ ram_pc = "search" /\ open_set = EmptyBag
    /\ path_result' = -1
    /\ ram_pc' = "returned"
    /\ UNCHANGED <<coordinates, coord_index, blocked_coords, max_coord, open_set, g_scores,
                   blocking_result>>
    /\ UNCHANGED notRamVars

PathNext == PathReturnGoal \/ PathExpand \/ PathReturnNone

SpecPath == PathInit /\ [][PathNext]_vars

\* Lines 111-112 of find_first_blocking_coordinate: before the for loop.
BlockingInit ==
    /\ coordinates \in CoordinateLists(MaxCoordinates)
    /\ coord_index = 0
    /\ blocked_coords = {}
    /\ max_coord = BlockingMaxCoord
    /\ open_set = EmptyBag
    /\ g_scores = <<>>
    /\ path_result = NoValue /\ blocking_result = NoValue
    /\ ram_pc = "next"
    /\ NotRamIdle

\* for x, y in coordinates: blocked_coords.add((x, y)); find_shortest_path(...)
BlockingNext ==
    /\ ram_pc = "next" /\ coord_index < Len(coordinates)
    /\ coord_index' = coord_index + 1
    /\ blocked_coords' = blocked_coords \cup {coordinates[coord_index + 1]}
    /\ open_set' = StartOpenSet(max_coord)
    /\ g_scores' = StartScores
    /\ ram_pc' = "search"
    /\ UNCHANGED <<coordinates, max_coord, path_result, blocking_result>>
    /\ UNCHANGED notRamVars

\* if find_shortest_path(blocked_coords, 70) == -1: return x, y
BlockingCheck ==
    /\ ram_pc = "returned" /\ coord_index > 0
    /\ IF path_result = -1
       THEN blocking_result' = coordinates[coord_index] /\ ram_pc' = "done"
       ELSE blocking_result' = blocking_result /\ ram_pc' = "next"
    /\ UNCHANGED <<coordinates, coord_index, blocked_coords, max_coord, open_set, g_scores,
                   path_result>>
    /\ UNCHANGED notRamVars

\* The for loop is over: return -1, -1
BlockingNone ==
    /\ ram_pc = "next" /\ coord_index = Len(coordinates)
    /\ blocking_result' = <<-1, -1>>
    /\ ram_pc' = "done"
    /\ UNCHANGED <<coordinates, coord_index, blocked_coords, max_coord, open_set, g_scores,
                   path_result>>
    /\ UNCHANGED notRamVars

SpecBlocking ==
    BlockingInit /\ [][BlockingNext \/ PathReturnGoal \/ PathExpand \/ PathReturnNone
                        \/ BlockingCheck \/ BlockingNone]_vars

\* The number of steps of a shortest path from the cells of S to goal
\* through unblocked cells of the square, -1 when there is none.
RECURSIVE StepsTo(_, _, _, _, _)
StepsTo(S, goal, blocked, m, k) ==
    LET S2 == S \cup {n \in ((0..m) \X (0..m)) \ blocked :
                        \E c \in S : Abs(c[1] - n[1]) + Abs(c[2] - n[2]) = 1}
    IN  IF goal \in S THEN k
        ELSE IF S2 = S THEN -1
        ELSE StepsTo(S2, goal, blocked, m, k + 1)

\* A path visits its first cell too: none exists when (0, 0) is blocked.
ShortestPathLength(blocked, m) == StepsTo({<<0, 0>>} \ blocked, <<m, m>>, blocked, m, 0)

\* C8: find_shortest_path returns the length of a shortest path from (0, 0)
\* to (max_coord, max_coord) that stays inside 0..max_coord and uses only
\* unblocked coordinates, and -1 when no such path exists.
C8_ShortestPath ==
    ram_pc = "returned" => path_result = ShortestPathLength(blocked_coords, max_coord)

\* What does hold: the value is right whenever (0, 0) is not blocked.
ShortestPathFromFreeStart ==
    (ram_pc = "returned" /\ <<0, 0>> \notin blocked_coords)
        => path_result = ShortestPathLength(blocked_coords, max_coord)

\* The first coordinate of the list after which no path is left, <<-1, -1>>
\* when there is none.
FirstBlocking(coords, m) ==
    LET cut == {i \in DOMAIN coords :
                  ShortestPathLength({coords[j] : j \in 1..i}, m) = -1}
    IN  IF cut = {} THEN <<-1, -1>> ELSE coords[SetMin(cut)]

\* C9: find_first_blocking_coordinate returns the first coordinate in input
\* order such that, once it and all earlier ones are blocked, no path from
\* (0, 0) to the far corner through unblocked coordinates exists, and
\* (-1, -1) when the corner stays reachable.
C9_FirstBlockingCoordinate ==
    ram_pc = "done" => blocking_result = FirstBlocking(coordinates, max_coord)

\* What does hold: the result is right for lists that do not block (0, 0).
FirstBlockingFromFreeStart ==
    (ram_pc = "done" /\ \A i \in DOMAIN coordinates : coordinates[i] # <<0, 0>>)
        => blocking_result = FirstBlocking(coordinates, max_coord)

(***************************************************************************)
(* day19: count_ways                                                       *)
(***************************************************************************)
\* The stripe colours of the model.
Stripes == {"r", "g"}

\* The strings of stripes of length lo..hi.
Strings(lo, hi) == UNION {[1..n -> Stripes] : n \in lo..hi}

\* design[i:j]
Slice(d, i, j) == SubSeq(d, i + 1, j)

\* dp[j] += dp[i]
AccumulateMutant(old, add) == add
Accumulate(old, add) == old + add

\* The state after lines 107-109: dp = [1, 0, ..., 0], i = 0.  A pattern is
\* a string of at least one stripe.
TowelInit ==
    /\ design \in Strings(0, MaxDesignLen)
    /\ towel_set \in {t \in SUBSET Strings(1, MaxPatternLen) : Cardinality(t) <= MaxPatterns}
    /\ dp = [k \in 0..Len(design) |-> IF k = 0 THEN 1 ELSE 0]
    /\ dp_i = 0
    /\ ways_result = NoValue
    /\ towel_pc = "loop"
    /\ NotTowelIdle

\* for i in range(n): if dp[i] == 0: continue
TowelSkip ==
    /\ towel_pc = "loop" /\ dp_i < Len(design)
    /\ dp[dp_i] = 0
    /\ dp_i' = dp_i + 1
    /\ UNCHANGED <<design, towel_set, dp, ways_result, towel_pc>>
    /\ UNCHANGED notTowelVars

\* for j in range(i + 1, n + 1): if design[i:j] in towel_set: dp[j] += dp[i]
TowelExtend ==
    /\ towel_pc = "loop" /\ dp_i < Len(design)
    /\ dp[dp_i] # 0
    /\ dp' = [j \in DOMAIN dp |->
                IF j > dp_i /\ Slice(design, dp_i, j) \in towel_set
                THEN Accumulate(dp[j], dp[dp_i]) ELSE dp[j]]
    /\ dp_i' = dp_i + 1
    /\ UNCHANGED <<design, towel_set, ways_result, towel_pc>>
    /\ UNCHANGED notTowelVars

\* return dp[n]
TowelReturn ==
    /\ towel_pc = "loop" /\ dp_i = Len(design)
    /\ ways_result' = dp[Len(design)]
    /\ towel_pc' = "done"
    /\ UNCHANGED <<design, towel_set, dp, dp_i>>
    /\ UNCHANGED notTowelVars

TowelNext == TowelSkip \/ TowelExtend \/ TowelReturn

SpecTowel == TowelInit /\ [][TowelNext]_vars

\* The sequences of patterns whose concatenation is d, each given by the
\* places where one pattern ends and the next begins: the sets of cuts of d
\* all of whose pieces are patterns.  The empty design has the empty sequence.
PatternSequences(d, patterns) ==
    IF d = <<>> THEN {{}}
    ELSE {C \in SUBSET (1..(Len(d) - 1)) :
            \A b \in C \cup {0} :
                SubSeq(d, b + 1, SetMin({c \in C \cup {Len(d)} : c > b})) \in patterns}

\* C10: count_ways returns the number of distinct sequences of patterns of
\* towel_set whose concatenation is the design: 1 for the empty design, 0
\* when there is no such sequence.
C10_CountsPatternSequences ==
    towel_pc = "done" => ways_result = Cardinality(PatternSequences(design, towel_set))

\* A design of four stripes that three or more sequences of patterns give.
C10_Witness ==
    /\ towel_pc = "done"
    /\ Len(design) = 4
    /\ ways_result >= 3

(***************************************************************************)
(* day5: sort_pages                                                        *)
(***************************************************************************)
PageNumbers == 1..MaxPage

\* The manuals of the model: lists of distinct page numbers.
Manuals ==
    UNION {{m \in [1..n -> PageNumbers] : \A i \in 1..n, j \in 1..n : m[i] = m[j] => i = j} :
              n \in 0..MaxPage}

\* compare_pages(page1, page2, rules)
compare_pages(page1, page2, rs) ==
    IF <<page1, page2>> \in rs THEN -1
    ELSE IF <<page2, page1>> \in rs THEN 1
    ELSE 0

\* key=lambda page: [compare_pages(page, other, rules) for other in pages]
PageKey(ps, rs, page) == [i \in DOMAIN ps |-> compare_pages(page, ps[i], rs)]

\* sorted(pages, key=...): the keys are lists, compared as Python compares
\* lists; the sort is stable, so the element at position i goes after the
\* elements with a smaller key and the earlier elements with an equal key.
sort_pages(ps, rs) ==
    LET key(i) == PageKey(ps, rs, ps[i])
        rank(i) == Cardinality({j \in DOMAIN ps : TupleLess(key(j), key(i))})
                   + Cardinality({j \in 1..(i - 1) : key(j) = key(i)}) + 1
    IN  [r \in DOMAIN ps |-> ps[CHOOSE i \in DOMAIN ps : rank(i) = r]]

\* The state at the call sort_pages(manual, page_ordering), line 106.
PagesInit ==
    /\ pages \in Manuals
    /\ rules \in SUBSET {r \in PageNumbers \X PageNumbers : r[1] # r[2]}
    /\ sorted_manual = <<>>
    /\ pages_pc = "call"
    /\ NotPagesIdle

\* sorted_manual = sort_pages(manual, page_ordering)
PagesSort ==
    /\ pages_pc = "call"
    /\ sorted_manual' = sort_pages(pages, rules)
    /\ pages_pc' = "done"
    /\ UNCHANGED <<pages, rules>>
    /\ UNCHANGED notPagesVars

PagesNext == PagesSort

SpecPages == PagesInit /\ [][PagesNext]_vars

\* The position of a page in a list of distinct pages.
PositionIn(l, page) == CHOOSE i \in DOMAIN l : l[i] = page

PagesOf(l) == {l[i] : i \in DOMAIN l}

\* C13: sort_pages returns a permutation of pages in which a comes before b
\* for every rule (a, b) with both a and b among the pages.
C13_SortedByRules ==
    pages_pc = "done" =>
        /\ Len(sorted_manual) = Len(pages) /\ PagesOf(sorted_manual) = PagesOf(pages)
        /\ \A r \in rules :
              (r[1] \in PagesOf(pages) /\ r[2] \in PagesOf(pages)) =>
                 PositionIn(sorted_manual, r[1]) < PositionIn(sorted_manual, r[2])

\* The rules order every two pages of the manual, one way, without a cycle.
RulesTotalOnPages ==
    /\ \A a \in PagesOf(pages), b \in PagesOf(pages) :
          a # b => (<<a, b>> \in rules) # (<<b, a>> \in rules)
    /\ \A a \in PagesOf(pages), b \in PagesOf(pages), c \in PagesOf(pages) :
          (<<a, b>> \in rules /\ <<b, c>> \in rules) => <<c, a>> \notin rules

\* What does hold: the result is a permutation of pages, and it follows the
\* rules when they order every two pages of the manual.
SortedWhenRulesTotal ==
    pages_pc = "done" =>
        /\ Len(sorted_manual) = Len(pages) /\ PagesOf(sorted_manual) = PagesOf(pages)
        /\ RulesTotalOnPages =>
              \A r \in rules :
                 (r[1] \in PagesOf(pages) /\ r[2] \in PagesOf(pages)) =>
                    PositionIn(sorted_manual, r[1]) < PositionIn(sorted_manual, r[2])

(***************************************************************************)
(* day14: contains_cluster                                                 *)
(***************************************************************************)
\* The positions of an m by n grid.
ClusterCells(m, n) == (0..(m - 1)) \X (0..(n - 1))

\* The lists of at most MaxRobots positions, in tuple order: contains_cluster
\* reads l through set(l) alone, so the order of the list is not varied.
RobotLists(m, n) ==
    UNION {{l \in [1..k -> ClusterCells(m, n)] :
                \A i \in 1..(k - 1) : l[i] = l[i + 1] \/ TupleLess(l[i], l[i + 1])} :
              k \in 0..MaxRobots}

\* get_nbrs(pos, m, n)
get_nbrs(pos, m, n) ==
    LET deltas == << <<0, 1>>, <<0, -1>>, <<1, 0>>, <<-1, 0>> >>
    IN  [i \in 1..4 |-> <<(pos[1] + deltas[i][1]) % m, (pos[2] + deltas[i][2]) % n>>]

\* for nbr in get_nbrs(current, m, n):
\*     if nbr in candidates and nbr not in visited: visited.add(nbr); q.append(nbr)
RECURSIVE ScanNbrs(_, _, _, _)
ScanNbrs(nbrs, cand, vis, stack) ==
    IF nbrs = <<>> THEN [visited |-> vis, q |-> stack]
    ELSE LET nbr == Head(nbrs) IN
         IF nbr \in cand /\ nbr \notin vis
         THEN ScanNbrs(Tail(nbrs), cand, vis \cup {nbr}, Append(stack, nbr))
         ELSE ScanNbrs(Tail(nbrs), cand, vis, stack)

\* largest_group >= num // 4
Enough(largest, n) == largest >= n \div 4

\* The state after lines 77-79.
ClusterInit ==
    /\ \E m \in 1..MaxCells, n \in 1..MaxCells :
          /\ m * n <= MaxCells
          /\ grid_m = m /\ grid_n = n
          /\ robots \in RobotLists(m, n)
    /\ candidates = {robots[i] : i \in DOMAIN robots}
    /\ num = Cardinality(candidates)
    /\ largest_group = 0
    /\ cluster_q = <<>>
    /\ cluster_visited = {}
    /\ cluster_result = NoValue
    /\ cluster_pc = "outer"
    /\ NotClusterIdle

\* while candidates: q = [list(candidates)[0]]; visited = {q[0]}
\* The first element of list(candidates) is whichever the set yields first.
ClusterPick ==
    /\ cluster_pc = "outer" /\ candidates # {}
    /\ \E c \in candidates :
          /\ cluster_q' = <<c>>
          /\ cluster_visited' = {c}
    /\ cluster_pc' = "inner"
    /\ UNCHANGED <<robots, grid_m, grid_n, candidates, num, largest_group, cluster_result>>
    /\ UNCHANGED notClusterVars

\* while q: current = q.pop(); the for loop over its neighbours
ClusterVisit ==
    /\ cluster_pc = "inner" /\ cluster_q # <<>>
    /\ LET current == cluster_q[Len(cluster_q)]
           rest == SubSeq(cluster_q, 1, Len(cluster_q) - 1)
           after == ScanNbrs(get_nbrs(current, grid_m, grid_n), candidates, cluster_visited, rest)
       IN /\ cluster_visited' = after.visited
          /\ cluster_q' = after.q
    /\ UNCHANGED <<robots, grid_m, grid_n, candidates, num, largest_group, cluster_result,
                   cluster_pc>>
    /\ UNCHANGED notClusterVars

\* largest_group = max(largest_group, len(visited)); candidates -= visited
ClusterClose ==
    /\ cluster_pc = "inner" /\ cluster_q = <<>>
    /\ largest_group' = IF Cardinality(cluster_visited) > largest_group
                        THEN Cardinality(cluster_visited) ELSE largest_group
    /\ candidates' = candidates \ cluster_visited
    /\ cluster_pc' = "outer"
    /\ UNCHANGED <<robots, grid_m, grid_n, num, cluster_q, cluster_visited, cluster_result>>
    /\ UNCHANGED notClusterVars

\* return largest_group >= num // 4
ClusterReturn ==
    /\ cluster_pc = "outer" /\ candidates = {}
    /\ cluster_result' = Enough(largest_group, num)
    /\ cluster_pc' = "done"
    /\ UNCHANGED <<robots, grid_m, grid_n, candidates, num, cluster_q, cluster_visited,
                   largest_group>>
    /\ UNCHANGED notClusterVars

ClusterNext == ClusterPick \/ ClusterVisit \/ ClusterClose \/ ClusterReturn

SpecCluster == ClusterInit /\ [][ClusterNext]_vars

\* Two positions next to each other on the grid, the edges joined.
Adjacent(a, b) ==
    \/ a[1] = b[1] /\ (a[2] - b[2] + grid_n) % grid_n \in {1 % grid_n, grid_n - 1}
    \/ a[2] = b[2] /\ (a[1] - b[1] + grid_m) % grid_m \in {1 % grid_m, grid_m - 1}

RobotPositions == {robots[i] : i \in DOMAIN robots}

\* The robot positions joined to p through adjacent robot positions.
RECURSIVE GroupFrom(_)
GroupFrom(G) ==
    LET G2 == G \cup {b \in RobotPositions : \E a \in G : Adjacent(a, b)}
    IN  IF G2 = G THEN G ELSE GroupFrom(G2)

RobotGroups == {GroupFrom({a}) : a \in RobotPositions}

\* The number of robots of l that stand on a position of G.
RobotsIn(G) == Cardinality({i \in DOMAIN robots : robots[i] \in G})

\* C14: contains_cluster returns True exactly when some group of robot
\* positions connected by adjacency holds at least a quarter of the robots
\* of l.
C14_QuarterOfRobots ==
    cluster_pc = "done" =>
        (cluster_result = \E G \in RobotGroups : 4 * RobotsIn(G) >= Len(robots))

\* What does hold: largest_group is the number of positions of the largest
\* group, and the result compares it with len(set(l)) // 4.
LargestGroupFound ==
    cluster_pc = "done" =>
        /\ \A G \in RobotGroups : Cardinality(G) <= largest_group
        /\ RobotGroups # {} => \E G \in RobotGroups : Cardinality(G) = largest_group
        /\ cluster_result = (largest_group >= Cardinality(RobotPositions) \div 4)

(***************************************************************************)
(* day20: bfs                                                              *)
(***************************************************************************)
TrackCells == (0..(BfsRows - 1)) \X (0..(BfsCols - 1))

\* The grids create_grid returns in the model: 'S' at s, '.' on the cells of
\* open, '#' elsewhere.
TrackGrid(s, open) ==
    [p \in TrackCells |-> IF p = s THEN "S" ELSE IF p \in open THEN "." ELSE "#"]

\* ds = ((1, 0), (-1, 0), (0, 1), (0, -1))
ds == << <<1, 0>>, <<-1, 0>>, <<0, 1>>, <<0, -1>> >>

\* A test that takes every position of the grid, walls as well.
CanStepMutant(g, dm, p) == p \notin DOMAIN dm

\* (nr, nc) not in dist_map and grid.get((nr, nc)) != '#'
\* grid.get gives None for a position that is no key of the grid.
CanStep(g, dm, p) ==
    /\ p \notin DOMAIN dm
    /\ (IF p \in DOMAIN g THEN g[p] ELSE NoValue) # "#"

\* The for loop over ds for the element (r, c) of the queue, from the k-th
\* direction on: queue.append((nr, nc)); dist_map[(nr, nc)] = d + 1
RECURSIVE ScanDs(_, _, _, _, _, _)
ScanDs(g, dm, qu, pos, d, k) ==
    IF k > Len(ds) THEN [dist_map |-> dm, queue |-> qu]
    ELSE LET np == <<pos[1] + ds[k][1], pos[2] + ds[k][2]>> IN
         IF CanStep(g, dm, np)
         THEN ScanDs(g, [x \in DOMAIN dm \cup {np} |-> IF x = np THEN d + 1 ELSE dm[x]],
                     Append(qu, np), pos, d, k + 1)
         ELSE ScanDs(g, dm, qu, pos, d, k + 1)

\* The positions the model follows the search to: the grid and MaxStray
\* rows and columns around it.
TrackWindow ==
    ((0 - MaxStray)..(BfsRows - 1 + MaxStray)) \X ((0 - MaxStray)..(BfsCols - 1 + MaxStray))

\* The state after lines 61-63.
BfsInit ==
    /\ \E s \in TrackCells, open \in SUBSET TrackCells :
          /\ s \notin open
          /\ Cardinality(open) < MaxOpen
          /\ track = TrackGrid(s, open)
          /\ bfs_start = s
    /\ dist_map = [x \in {bfs_start} |-> 0]
    /\ queue = <<bfs_start>>
    /\ queue_index = 0
    /\ bfs_pc = "loop"
    /\ NotBfsIdle

\* One turn of `for r, c in queue`.  The search is followed no further than
\* TrackWindow.
BfsStep ==
    /\ bfs_pc = "loop" /\ queue_index < Len(queue)
    /\ LET pos == queue[queue_index + 1]
           after == ScanDs(track, dist_map, queue, pos, dist_map[pos], 1)
       IN /\ DOMAIN after.dist_map \subseteq TrackWindow
          /\ dist_map' = after.dist_map
          /\ queue' = after.queue
    /\ queue_index' = queue_index + 1
    /\ UNCHANGED <<track, bfs_start, bfs_pc>>
    /\ UNCHANGED notBfsVars

\* The for loop is over: return dist_map
BfsReturn ==
    /\ bfs_pc = "loop" /\ queue_index = Len(queue)
    /\ bfs_pc' = "done"
    /\ UNCHANGED <<track, bfs_start, dist_map, queue, queue_index>>
    /\ UNCHANGED notBfsVars

BfsNext == BfsStep \/ BfsReturn

SpecBfs == BfsInit /\ [][BfsNext]_vars
\* The interpreter always takes the next step of a running call.
FairSpecBfs == SpecBfs /\ WF_vars(BfsNext)

\* The four positions next to p.
Beside(p) == {<<p[1] + 1, p[2]>>, <<p[1] - 1, p[2]>>, <<p[1], p[2] + 1>>, <<p[1], p[2] - 1>>}

\* The cells of the grid that are not '#'.
OpenCells == {p \in DOMAIN track : track[p] # "#"}

\* One more step from the cells of W through cells that are not '#'.
Grow(W) == W \cup {p \in OpenCells : \E a \in W : p \in Beside(a)}

\* The cells reached from the cells of W through cells that are not '#'.
RECURSIVE Spread(_)
Spread(W) == IF Grow(W) = W THEN W ELSE Spread(Grow(W))

ReachableCells == Spread({bfs_start})

\* The number of steps after which W, grown step by step, holds the
\* reachable cell p.
RECURSIVE StepsUntil(_, _)
StepsUntil(W, p) == IF p \in W THEN 0 ELSE 1 + StepsUntil(Grow(W), p)

StepsFromStart(p) == StepsUntil({bfs_start}, p)

\* The map holds exactly the reachable cells, each with its distance.
ExactDistances ==
    /\ DOMAIN dist_map = ReachableCells
    /\ \A p \in DOMAIN dist_map : dist_map[p] = StepsFromStart(p)

\* C15, the part on the values: no position outside the grid ever gets a
\* distance, and the map bfs returns holds exactly the cells reachable from
\* start through cells that are not '#', each with its shortest distance.
C15_DistancesInsideGrid ==
    /\ DOMAIN dist_map \subseteq DOMAIN track
    /\ bfs_pc = "done" => ExactDistances

\* No reachable cell is at the edge of the grid: the four positions beside
\* it are positions of the grid.
Enclosed == \A p \in ReachableCells : Beside(p) \subseteq DOMAIN track

\* C15, amended: on a grid where no cell reachable from start is at the edge
\* of the grid, bfs terminates, no position outside the grid gets a
\* distance, and the map returned holds exactly the reachable cells, each
\* with its shortest distance.
C15_EnclosedDistances ==
    /\ Enclosed => <>(bfs_pc = "done")
    /\ [](Enclosed => (/\ DOMAIN dist_map \subseteq DOMAIN track
                       /\ bfs_pc = "done" => ExactDistances))

\* bfs has returned on an enclosed grid with a cell two steps from start.
C15_Witness ==
    /\ bfs_pc = "done" /\ Enclosed
    /\ \E p \in DOMAIN dist_map : dist_map[p] = 2

(***************************************************************************)
(* day1: read_lists_from_file                                              *)
(***************************************************************************)
\* The words of a line in the model: two numerals and a word that is none.
Words == {"1", "2", "x"}

\* int(word): the value of a numeral; ValueError for any other word.
IsNumeral(word) == word \in {"1", "2"}
int(word) == CASE word = "1" -> 1 [] word = "2" -> 2

\* line.split(): the lines of no word, one word and two words.
SplitLines == {<<>>} \cup {<<a>> : a \in Words} \cup {<<a, b>> : a \in Words, b \in Words}

\* The files of at most n lines.
RECURSIVE Files(_)
Files(n) ==
    IF n = 0 THEN {<<>>}
    ELSE Files(n - 1) \cup
         {Append(f, l) : f \in {x \in Files(n - 1) : Len(x) = n - 1}, l \in SplitLines}

\* The state after lines 15-16, at the try.
ListsInit ==
    /\ file_exists \in BOOLEAN
    /\ file_lines \in (IF file_exists THEN Files(MaxFileLines) ELSE {<<>>})
    /\ line_index = 0
    /\ list_1 = <<>>
    /\ list_2 = <<>>
    /\ printed = <<>>
    /\ lists_pc = "try"
    /\ NotListsIdle

\* open raises FileNotFoundError: print(f"File not found: {filepath}"); return
ListsFileNotFound ==
    /\ lists_pc = "try" /\ ~file_exists
    /\ printed' = Append(printed, "File not found")
    /\ lists_pc' = "done"
    /\ UNCHANGED <<file_exists, file_lines, line_index, list_1, list_2>>
    /\ UNCHANGED notListsVars

\* A line of two numerals: both appends.
ListsAppend ==
    /\ lists_pc = "try" /\ file_exists /\ line_index < Len(file_lines)
    /\ LET values == file_lines[line_index + 1] IN
          /\ Len(values) >= 2 /\ IsNumeral(values[1]) /\ IsNumeral(values[2])
          /\ list_1' = Append(list_1, int(values[1]))
          /\ list_2' = Append(list_2, int(values[2]))
    /\ line_index' = line_index + 1
    /\ UNCHANGED <<file_exists, file_lines, printed, lists_pc>>
    /\ UNCHANGED notListsVars

\* int(values[0]) or int(values[1]) raises ValueError, the second after
\* list_1.append: print(f"Invalid value in file: {filepath}"); return
ListsValueError ==
    /\ lists_pc = "try" /\ file_exists /\ line_index < Len(file_lines)
    /\ LET values == file_lines[line_index + 1] IN
          \/ /\ Len(values) >= 1 /\ ~IsNumeral(values[1])
             /\ list_1' = list_1
          \/ /\ Len(values) >= 2 /\ IsNumeral(values[1]) /\ ~IsNumeral(values[2])
             /\ list_1' = Append(list_1, int(values[1]))
    /\ printed' = Append(printed, "Invalid value in file")
    /\ lists_pc' = "done"
    /\ UNCHANGED <<file_exists, file_lines, line_index, list_2>>
    /\ UNCHANGED notListsVars

\* values[0] or values[1] raises IndexError, the second after list_1.append:
\* no except clause takes it.
ListsIndexError ==
    /\ lists_pc = "try" /\ file_exists /\ line_index < Len(file_lines)
    /\ LET values == file_lines[line_index + 1] IN
          \/ /\ Len(values) = 0
             /\ list_1' = list_1
          \/ /\ Len(values) = 1 /\ IsNumeral(values[1])
             /\ list_1' = Append(list_1, int(values[1]))
    /\ lists_pc' = "raised"
    /\ UNCHANGED <<file_exists, file_lines, line_index, list_2, printed>>
    /\ UNCHANGED notListsVars

\* The file is read to its end: return list_1, list_2
ListsReturn ==
    /\ lists_pc = "try" /\ file_exists /\ line_index = Len(file_lines)
    /\ lists_pc' = "done"
    /\ UNCHANGED <<file_exists, file_lines, line_index, list_1, list_2, printed>>
    /\ UNCHANGED notListsVars

ListsNext ==
    ListsFileNotFound \/ ListsAppend \/ ListsValueError \/ ListsIndexError \/ ListsReturn

SpecLists == ListsInit /\ [][ListsNext]_vars

\* A line that is not two numerals, and a line with a word that is no
\* numeral.
GoodLine(l) == Len(l) = 2 /\ l[1] \in {"1", "2"} /\ l[2] \in {"1", "2"}
HoldsNonInteger(l) == \E i \in DOMAIN l : l[i] = "x"

\* The first line that is not two numerals, 0 when there is none.
FailingLine ==
    IF \A i \in DOMAIN file_lines : GoodLine(file_lines[i]) THEN 0
    ELSE CHOOSE i \in DOMAIN file_lines :
            ~GoodLine(file_lines[i]) /\ \A j \in 1..(i - 1) : GoodLine(file_lines[j])

\* Column c of the first n lines.
Column(c, n) == [i \in 1..n |-> IF file_lines[i][c] = "1" THEN 1 ELSE 2]

\* C18: for a missing file, and for a file whose first failing line holds a
\* non-integer value, no error propagates, a message is printed, and the
\* lists returned are the two columns of the lines before the failing line
\* (empty for a missing file).
C18_ListsOfPrecedingLines ==
    /\ ~file_exists => lists_pc # "raised"
    /\ (file_exists /\ FailingLine # 0 /\ HoldsNonInteger(file_lines[FailingLine]))
          => lists_pc # "raised"
    /\ (lists_pc = "done" /\ ~file_exists)
          => (Len(printed) = 1 /\ list_1 = <<>> /\ list_2 = <<>>)
    /\ (lists_pc = "done" /\ file_exists /\ FailingLine # 0)
          => /\ Len(printed) = 1
             /\ list_1 = Column(1, FailingLine - 1)
             /\ list_2 = Column(2, FailingLine - 1)

\* What does hold: no error propagates in the two cases, a message is
\* printed, list_2 is the second column of the lines before the failing
\* line, and list_1 is the first column of those lines, with the first
\* value of the failing line after them when that value is an integer.
ListsAfterValueError ==
    /\ ~file_exists => lists_pc # "raised"
    /\ (file_exists /\ FailingLine # 0 /\ HoldsNonInteger(file_lines[FailingLine]))
          => lists_pc # "raised"
    /\ (lists_pc = "done" /\ ~file_exists)
          => (Len(printed) = 1 /\ list_1 = <<>> /\ list_2 = <<>>)
    /\ (lists_pc = "done" /\ file_exists /\ FailingLine # 0)
          => /\ Len(printed) = 1
             /\ list_2 = Column(2, FailingLine - 1)
             /\ SubSeq(list_1, 1, FailingLine - 1) = Column(1, FailingLine - 1)
             /\ Len(list_1) = (FailingLine - 1)
                   + (IF file_lines[FailingLine][1] = "x" THEN 0 ELSE 1)

(***************************************************************************)
(* day7: evaluate_combinations                                             *)
(***************************************************************************)
\* operators = ['+', '*', '||']
operators == <<"+", "*", "||">>

RECURSIVE Power(_, _)
Power(b, e) == IF e = 0 THEN 1 ELSE b * Power(b, e - 1)

\* len(str(v)) for v >= 0: the number of decimal digits.
RECURSIVE DecimalDigits(_)
DecimalDigits(v) == IF v < 10 THEN 1 ELSE 1 + DecimalDigits(v \div 10)

\* A concatenation that writes the next number first.
ConcatenateMutant(a, b) == b * Power(10, DecimalDigits(a)) + a

\* int(str(current_value) + str(numbers[i + 1])): the digits of b written
\* after the digits of a.
Concatenate(a, b) == a * Power(10, DecimalDigits(b)) + b

\* The k-th tuple of product(operators, repeat=n), counted from 0: the last
\* position changes fastest.
product(k, n) == [i \in 1..n |-> operators[((k \div Power(3, n - i)) % 3) + 1]]

\* The inner for loop from position i on, current_value being v.
RECURSIVE ApplyOps(_, _, _, _)
ApplyOps(nums, ops, i, v) ==
    IF i > Len(ops) THEN v
    ELSE ApplyOps(nums, ops, i + 1,
                  CASE ops[i] = "+" -> v + nums[i + 1]
                    [] ops[i] = "*" -> v * nums[i + 1]
                    [] ops[i] = "||" -> Concatenate(v, nums[i + 1]))

\* The state after lines 35-37.
CalibInit ==
    /\ numbers \in UNION {[1..k -> 1..MaxNumber] : k \in 1..MaxNumbers}
    /\ target \in 1..MaxTarget
    /\ ops_index = 0
    /\ count = 0
    /\ calib_result = NoValue
    /\ calib_pc = "loop"
    /\ NotCalibIdle

\* One turn of `for ops in product(operators, repeat=n)`.
CalibTry ==
    /\ calib_pc = "loop"
    /\ ops_index < Power(3, Len(numbers) - 1)
    /\ LET ops == product(ops_index, Len(numbers) - 1)
           current_value == ApplyOps(numbers, ops, 1, numbers[1])
       IN count' = IF current_value = target THEN count + 1 ELSE count
    /\ ops_index' = ops_index + 1
    /\ UNCHANGED <<numbers, target, calib_result, calib_pc>>
    /\ UNCHANGED notCalibVars

\* return count
CalibReturn ==
    /\ calib_pc = "loop"
    /\ ops_index = Power(3, Len(numbers) - 1)
    /\ calib_result' = count
    /\ calib_pc' = "done"
    /\ UNCHANGED <<numbers, target, ops_index, count>>
    /\ UNCHANGED notCalibVars

CalibNext == CalibTry \/ CalibReturn

SpecCalib == CalibInit /\ [][CalibNext]_vars

\* The value of the numbers with the operators of f in the gaps, from the
\* left, up to the number at position i.
RECURSIVE LeftToRight(_, _)
LeftToRight(f, i) ==
    IF i = 1 THEN numbers[1]
    ELSE LET v == LeftToRight(f, i - 1)
             b == numbers[i]
         IN  CASE f[i - 1] = "+" -> v + b
               [] f[i - 1] = "*" -> v * b
               [] f[i - 1] = "||" ->
                    CHOOSE c \in 0..(100 * v + 99) :
                        \E e \in 1..2 : c = v * Power(10, e) + b /\ b < Power(10, e)
                                         /\ (e = 1 \/ b >= 10)

\* The assignments of operators to the gaps that give the target.
GivingTarget ==
    {f \in [1..(Len(numbers) - 1) -> {"+", "*", "||"}] : LeftToRight(f, Len(numbers)) = target}

====
